---- MODULE Spec2Model ----
(***************************************************************************)
(* SecureWipe-Cpp: the overwrite engine (wipe_file) and the directory      *)
(* sweep (wipe_directory) of src/src/secure_wipe.cpp, over a small model   *)
(* of a POSIX file tree.                                                   *)
(*                                                                         *)
(* A path is the sequence of its components; an absolute path starts at   *)
(* the root <<>>.  The file tree maps every node of a fixed name space to  *)
(* what is there: nothing, a regular file with its bytes, a directory      *)
(* with its read and search permission, or a symbolic link with its        *)
(* target.  The process is not privileged.                                 *)
(*                                                                         *)
(* Both operations are synchronous calls, so each is one action.  What a   *)
(* call did on the way (the entries it enumerated, the files it handed to  *)
(* wipe_file, every open/write/flush/remove it issued and every write(2)   *)
(* its stream made, in order) is kept in the result record as a trace.     *)
(*                                                                         *)
(* wipe_file writes through a std::ofstream: small chunks stay in the      *)
(* stream buffer until the flush, a write(2) may carry fewer bytes than    *)
(* asked for, in which case the stream asks again for the rest, and a      *)
(* stream that goes out of scope writes out what it still buffers.         *)
(* wipe_directory names every entry by the directory as it was given       *)
(* followed by the names below it, and enumerates in the order readdir     *)
(* returns, which is an input.  Relative paths start at the working        *)
(* directory of the process, which stays a directory when its name is      *)
(* removed.                                                                *)
(***************************************************************************)
EXTENDS Integers, Sequences, FiniteSets, TLC

VARIABLES fs,     \* the file tree now
          pre,    \* the file tree when the latest call started
          pc,     \* "start", "called" (inputs drawn), "returned", "ran1", "ran2"
          call,   \* the inputs of the latest call
          ret,    \* what the latest call returned, with its trace
          first   \* what the first run of a repeated command returned

vars == <<fs, pre, pc, call, ret, first>>

(* ---------------------------- bounds ---------------------------------- *)

\* Largest file size (bytes) a direct wipe_file call is tried on.
MaxSize == 3
\* Largest number of passes asked for.
MaxPasses == 2
\* Largest block_size asked for.
MaxBlock == 2

(* ---------------------------- the file tree --------------------------- *)

Root == <<>>
Cwd == <<"ext">>
Target == <<"t">>

\* Every name the model's file tree can hold.
Nodes ==
  { Root, <<"System">>, <<"ext">>, <<"ext", "x">>, Target,
    <<"t", "a">>, <<"t", "l">>, <<"t", "s">>, <<"t", "s", "b">> }

\* What a name stands for.  A directory can be listed when readable (r) and
\* the entries in it can be reached when searchable (x).
Nothing ==
  [kind |-> "none", data |-> <<>>, target |-> <<>>, readable |-> TRUE, searchable |-> TRUE]
Dir(r, x) ==
  [kind |-> "dir", data |-> <<>>, target |-> <<>>, readable |-> r, searchable |-> x]
File(d) ==
  [kind |-> "file", data |-> d, target |-> <<>>, readable |-> TRUE, searchable |-> TRUE]
Link(t) ==
  [kind |-> "link", data |-> <<>>, target |-> t, readable |-> TRUE, searchable |-> TRUE]

ParentOf(n) == IF n = Root THEN Root ELSE SubSeq(n, 1, Len(n) - 1)

IsPrefix(d, n) == Len(d) <= Len(n) /\ SubSeq(n, 1, Len(d)) = d

\* The place of a path that cannot be resolved (ENOENT, ENOTDIR), and of one
\* that leads through a directory without search permission (EACCES).
Missing == <<"", "">>
Forbidden == <<"", "EACCES">>

\* The working directory of the process once its name has been removed: it
\* is still a directory, it is empty, and its ".." is still its parent.
Unlinked == <<"", ".">>

\* What is at place n.
At(f, n) ==
  IF n \in Nodes THEN f[n] ELSE IF n = Unlinked THEN Dir(TRUE, TRUE) ELSE Nothing

Kind(f, n) == At(f, n).kind

\* Where the process's working directory is now.
WorkDir(f) == IF Kind(f, Cwd) = "dir" THEN Cwd ELSE Unlinked

\* The entry named c in directory cur; "" is what a trailing separator
\* leaves, the directory itself.
Lookup(cur, c) ==
  IF c \in {".", ""} THEN cur
  ELSE IF c = ".." THEN ParentOf(IF cur = Unlinked THEN Cwd ELSE cur)
  ELSE IF cur = Unlinked THEN Missing
  ELSE Append(cur, c)

\* Kernel path resolution from place cur along the components rest; with
\* follow, a symbolic link in the last component is followed too (stat),
\* otherwise it is the result (lstat).  Going on from a directory takes
\* search permission on it.  Link targets are absolute and hold no link
\* themselves.
RECURSIVE Walk(_, _, _, _)
Walk(f, cur, rest, follow) ==
  IF rest = <<>> THEN cur
  ELSE IF Kind(f, cur) # "dir" THEN Missing
  ELSE IF ~At(f, cur).searchable THEN Forbidden
  ELSE IF Kind(f, Lookup(cur, Head(rest))) = "link" /\ (follow \/ Len(rest) > 1)
    THEN Walk(f, f[Lookup(cur, Head(rest))].target, Tail(rest), follow)
  ELSE Walk(f, Lookup(cur, Head(rest)), Tail(rest), follow)

\* A path argument is [rel, comps]: relative to the working directory or
\* absolute.  The relative path without components is the empty path "".
AbsPath(comps) == [rel |-> FALSE, comps |-> comps]
RelPath(comps) == [rel |-> TRUE, comps |-> comps]
EmptyPath == RelPath(<<>>)

\* stat and lstat; of the empty path they fail with ENOENT.
Stat(f, p) ==
  IF p = EmptyPath THEN Missing
  ELSE Walk(f, IF p.rel THEN WorkDir(f) ELSE Root, p.comps, TRUE)
Lstat(f, p) ==
  IF p = EmptyPath THEN Missing
  ELSE Walk(f, IF p.rel THEN WorkDir(f) ELSE Root, p.comps, FALSE)

exists(f, p) == Kind(f, Stat(f, p)) # "none"
is_regular_file(f, p) == Kind(f, Stat(f, p)) = "file"
is_directory(f, p) == Kind(f, Stat(f, p)) = "dir"
is_symlink(f, p) == Kind(f, Lstat(f, p)) = "link"

(* ---------------------------- wipe_file ---------------------------- *)

Min(a, b) == IF a < b THEN a ELSE b
Max(a, b) == IF a < b THEN b ELSE a

\* A chunk of at least this many bytes, or one that would fill the stream
\* buffer, goes from ofs.write straight to write(2) (basic_filebuf::xsputn).
DirectLimit == 1024
\* The room in the buffer of a stream just opened (BUFSIZ - 1).
BufAvail == 8191

\* One operation of a wipe_file call, as it appears in the trace: "open",
\* "write" (ofs.write), "flush" (ofs.flush), "close" (the stream going out of
\* scope), "remove", and "write(2)" for every system call that carries bytes
\* of the stream to the file.
Event(op, pass, off, bytes, ok) ==
  [op |-> op, pass |-> pass, off |-> off, bytes |-> bytes, ok |-> ok]

\* The environment's faults for one wipe_file call: the system call that
\* fails, which one of its kind within the call (for an open, the pass), and
\* whether the later ones of the kind fail too; and the write(2) that is
\* short (0 for none), with the number of bytes it carries.
NoFault == [op |-> "none", nth |-> 1, sticky |-> FALSE, short |-> 0, carried |-> 0]
Fault(op, nth, sticky) == [NoFault EXCEPT !.op = op, !.nth = nth, !.sticky = sticky]
ShortWrite(plan, n, k) == [plan EXCEPT !.short = n, !.carried = k]

\* The n-th system call of kind op fails.
Fails(plan, op, n) ==
  plan.op = op /\ (plan.nth = n \/ (plan.sticky /\ plan.nth < n))

\* The number of bytes the n-th write(2) carries when asked for len.
Carried(plan, n, len) ==
  IF plan.short = n /\ plan.carried < len THEN plan.carried ELSE len

\* std::strerror(errno) / ec.message() for the failing operation.
strerror(plan) ==
  CASE plan.op = "open" -> "Permission denied"
    [] plan.op = "write" -> "No space left on device"
    [] plan.op = "remove" -> "Permission denied"
    [] OTHER -> "Input/output error"

errstr(prefix, plan) == prefix \o ": " \o strerror(plan)

\* dist(rng): the k-th draw of a generator whose output is the tape rnd,
\* repeated.
Draw(rnd, k) == rnd[((k - 1) % Len(rnd)) + 1]

\* A chunk that is always a whole buffer.
Chunk_whole_buffer(remaining, bufsize) == bufsize

\* The chunk written next: std::min(remaining, buf.size()).
Chunk(remaining, bufsize) == Min(remaining, bufsize)

\* std::fill(buf.begin(), buf.begin() + chunk, 0x00)
FillZeros(buf, chunk) ==
  [i \in 1..Len(buf) |-> IF i <= chunk THEN 0 ELSE buf[i]]

\* for (i < chunk) buf[i] = dist(rng), after `drawn` earlier draws
FillRandom(buf, chunk, rnd, drawn) ==
  [i \in 1..Len(buf) |-> IF i <= chunk THEN Draw(rnd, drawn + i) ELSE buf[i]]

\* The file's bytes after `bytes` are written at offset off.
Overwrite(data, off, bytes) ==
  [i \in 1..Max(Len(data), off + Len(bytes)) |->
     IF off < i /\ i <= off + Len(bytes) THEN bytes[i - off] ELSE data[i]]

\* The state of a call in its pass loop: data, the file's bytes; pos, the
\* offset of the descriptor; pend, the bytes the stream buffers; good, the
\* stream's state; nw, the write(2) calls so far; buf and drawn, the
\* program's buffer and the random draws so far; io, the trace; err, the
\* message of the failure.
\*
\* One write(2) has carried part to the file at the descriptor's offset.
Wrote(s, pass, part) ==
  [s EXCEPT !.nw = @ + 1,
            !.data = Overwrite(@, s.pos, part),
            !.pos = @ + Len(part),
            !.io = Append(@, Event("write(2)", pass, s.pos, part, TRUE))]

\* The stream writing bytes at the descriptor's offset: write(2), again for
\* the rest while it carries some of the bytes only, until all are written
\* or a call fails.  When all are written the stream buffer is empty; when a
\* call fails the stream goes bad and keeps all it buffered, the offset
\* staying where the calls before have moved it.  A trace event holds the
\* bytes carried, or for a failed call the bytes asked for.
RECURSIVE sys_write(_, _, _, _)
sys_write(s, pass, bytes, plan) ==
  IF bytes = <<>> THEN [s EXCEPT !.pend = <<>>]
  ELSE IF Fails(plan, "write", s.nw + 1)
    THEN [s EXCEPT !.nw = @ + 1, !.good = FALSE,
                   !.io = Append(@, Event("write(2)", pass, s.pos, bytes, FALSE))]
  ELSE sys_write(Wrote(s, pass, SubSeq(bytes, 1, Carried(plan, s.nw + 1, Len(bytes)))),
                 pass,
                 SubSeq(bytes, Carried(plan, s.nw + 1, Len(bytes)) + 1, Len(bytes)),
                 plan)

\* ofs.write(buf.data(), chunk): a chunk shorter than DirectLimit and than
\* the room left in the stream buffer is only buffered; any other is written
\* at once, after what the stream buffers.
ofs_write(s, pass, bytes, plan) ==
  IF Len(bytes) >= Min(DirectLimit, BufAvail - Len(s.pend))
    THEN sys_write(s, pass, s.pend \o bytes, plan)
    ELSE [s EXCEPT !.pend = @ \o bytes]

\* flush_to_disk: ofs.flush() writes what the stream buffers, if anything;
\* `if (!ofs) return false` reads the stream's state afterwards.
flush_to_disk(s, pass, plan) ==
  IF s.pend = <<>> THEN s ELSE sys_write(s, pass, s.pend, plan)

\* The stream has tried to write what it buffered on the way out: whatever
\* came of it, the buffer is gone with the stream.
Closed(w, pass) ==
  [w EXCEPT !.pend = <<>>,
            !.io = Append(@, Event("close", pass, w.pos, <<>>, w.pend = <<>>))]

\* ofs going out of scope: the stream writes what it still buffers, takes no
\* notice of the outcome, and closes the descriptor.
close(s, pass, plan) ==
  IF s.pend = <<>> THEN Closed(s, pass)
  ELSE Closed(sys_write(s, pass, s.pend, plan), pass)

\* if (!ofs) return "Write failed ..."; remaining -= chunk; the next chunk.
\* w is the call after ofs.write of bytes at stream offset off.
RECURSIVE WriteLoop(_, _, _, _, _, _)
AfterWrite(w, off, bytes, remaining, pass, opt, plan, rnd) ==
  IF ~w.good
    THEN [w EXCEPT !.io = Append(@, Event("write", pass, off, bytes, FALSE)),
                   !.err = errstr("Write failed during overwrite", plan)]
    ELSE WriteLoop([w EXCEPT !.io = Append(@, Event("write", pass, off, bytes, TRUE))],
                   remaining - Len(bytes), pass, opt, plan, rnd)

\* One chunk of the write loop, its buffer filled: ofs.write, the check of
\* the stream, remaining -= chunk, and on to the next chunk.
WriteChunk(s, remaining, pass, opt, plan, rnd, chunk, buf) ==
  AfterWrite(ofs_write([s EXCEPT !.buf = buf,
                                 !.drawn = IF opt.pattern = "Zeros" THEN @ ELSE @ + chunk],
                       pass, SubSeq(buf, 1, chunk), plan),
             s.pos + Len(s.pend), SubSeq(buf, 1, chunk),
             remaining, pass, opt, plan, rnd)

\* The buffer filled for a chunk, by the pattern.
FillChunk(s, opt, rnd, chunk) ==
  IF opt.pattern = "Zeros" THEN FillZeros(s.buf, chunk)
  ELSE FillRandom(s.buf, chunk, rnd, s.drawn)

\* while (remaining > 0)
WriteLoop(s, remaining, pass, opt, plan, rnd) ==
  IF ~(remaining > 0) THEN s
  ELSE WriteChunk(s, remaining, pass, opt, plan, rnd,
                  Chunk(remaining, Len(s.buf)),
                  FillChunk(s, opt, rnd, Chunk(remaining, Len(s.buf))))

\* if (!flush_to_disk(ofs)) return "Flush failed"; else the stream is closed
\* at the end of the iteration and the next pass begins.  fl is the call
\* after ofs.flush().
RECURSIVE PassLoop(_, _, _, _, _, _)
Flushed(fl, pass, file_size, opt, plan, rnd) ==
  IF ~fl.good
    THEN close([fl EXCEPT !.io = Append(@, Event("flush", pass, fl.pos, <<>>, FALSE)),
                          !.err = "Flush failed"],
               pass, plan)
    ELSE PassLoop(close([fl EXCEPT !.io = Append(@, Event("flush", pass, fl.pos, <<>>, TRUE))],
                        pass, plan),
                  pass + 1, file_size, opt, plan, rnd)

\* The end of a pass whose write loop left `written`: the return of a failed
\* write, or the flush.
EndOfPass(written, pass, file_size, opt, plan, rnd) ==
  IF written.err # "" THEN close(written, pass, plan)
  ELSE Flushed(flush_to_disk(written, pass, plan), pass, file_size, opt, plan, rnd)

\* for (pass = 1; pass <= opt.passes; ++pass): open, write loop, flush.
PassLoop(s, pass, file_size, opt, plan, rnd) ==
  IF ~(pass <= opt.passes) THEN s
  ELSE IF Fails(plan, "open", pass)
    THEN [s EXCEPT !.io = Append(@, Event("open", pass, 0, <<>>, FALSE)),
                   !.err = errstr("Failed to open file for overwrite", plan)]
  ELSE EndOfPass(WriteLoop([s EXCEPT !.pos = 0, !.pend = <<>>, !.good = TRUE,
                                     !.io = Append(@, Event("open", pass, 0, <<>>, TRUE))],
                           file_size, pass, opt, plan, rnd),
                 pass, file_size, opt, plan, rnd)

\* The checks with the option check moved to the front.
Precondition_passes_first(f, path, opt, plan) ==
  IF opt.passes <= 0 THEN "passes must be >= 1"
  ELSE IF ~exists(f, path) THEN "Path does not exist"
  ELSE IF ~is_regular_file(f, path)
    THEN "Path is not a regular file (directories not supported in MVP)"
  ELSE IF Fails(plan, "size", 1) THEN "Failed to get file size: " \o strerror(plan)
  ELSE ""

\* The precondition that fails first, "" when none does.
Precondition(f, path, opt, plan) ==
  IF ~exists(f, path) THEN "Path does not exist"
  ELSE IF ~is_regular_file(f, path)
    THEN "Path is not a regular file (directories not supported in MVP)"
  ELSE IF Fails(plan, "size", 1) THEN "Failed to get file size: " \o strerror(plan)
  ELSE IF opt.passes <= 0 THEN "passes must be >= 1"
  ELSE ""

\* fs::remove(path, ec): unlinks the entry itself (a symbolic link included)
\* unless the environment fails it; result is remove's return value, ec
\* whether it set an error.
fs_remove(f, path, plan) ==
  IF Fails(plan, "remove", 1) THEN [fs |-> f, result |-> FALSE, ec |-> TRUE]
  ELSE IF Kind(f, Lstat(f, path)) = "none" THEN [fs |-> f, result |-> FALSE, ec |-> FALSE]
  ELSE [fs |-> [f EXCEPT ![Lstat(f, path)] = Nothing], result |-> TRUE, ec |-> FALSE]

\* if (!fs::remove(path, ec) || ec)
RemoveFailed(rm) == ~rm.result \/ rm.ec

WipeResult(ok, message, f, io) ==
  [ok |-> ok, message |-> message, fs |-> f, io |-> io]

\* The end of wipe_file, fs::remove having answered rm after the passes
\* left the trace io.
AfterRemove(opt, plan, io, rm) ==
  IF RemoveFailed(rm)
    THEN WipeResult(FALSE,
                    "Failed to delete file: " \o
                      (IF rm.ec THEN strerror(plan) ELSE "unknown error"),
                    rm.fs,
                    Append(io, Event("remove", opt.passes, 0, <<>>, rm.result /\ ~rm.ec)))
    ELSE WipeResult(TRUE, "Wiped and deleted successfully", rm.fs,
                    Append(io, Event("remove", opt.passes, 0, <<>>, rm.result /\ ~rm.ec)))

\* wipe_file once the pass loop has ended in s, f1 being the tree with the
\* bytes the passes left: the return of the failed pass, or the removal.
AfterPasses(f1, path, opt, plan, s) ==
  IF s.err # "" THEN WipeResult(FALSE, s.err, f1, s.io)
  ELSE AfterRemove(opt, plan, s.io, fs_remove(f1, path, plan))

\* wipe_file on the file at node, its preconditions met.
Overwrite_and_delete(f, path, opt, plan, rnd, node, s) ==
  AfterPasses([f EXCEPT ![node].data = s.data], path, opt, plan, s)

wipe_file(f, path, opt, plan, rnd) ==
  IF Precondition(f, path, opt, plan) # ""
    THEN WipeResult(FALSE, Precondition(f, path, opt, plan), f, <<>>)
    ELSE Overwrite_and_delete(
           f, path, opt, plan, rnd, Stat(f, path),
           PassLoop([data |-> f[Stat(f, path)].data,
                     buf |-> [i \in 1..opt.block_size |-> 0],
                     pos |-> 0, pend |-> <<>>, good |-> TRUE, nw |-> 0,
                     drawn |-> 0, io |-> <<>>, err |-> ""],
                    1, Len(f[Stat(f, path)].data), opt, plan, rnd))

(* ---------------------------- is_dangerous_dir -------------------- *)

\* The environment of a wipe_directory call: HOME (home_set, and home, the
\* path it holds) and whether getcwd() and realpath() fail.
Env(home_set, home, getcwd_fails, realpath_fails) ==
  [home_set |-> home_set, home |-> home,
   getcwd_fails |-> getcwd_fails, realpath_fails |-> realpath_fails]

\* The outcome of a path operation: the path (relative or absolute, with
\* its components; a last component "" is a trailing separator) or an error.
Resolved(p) == [rel |-> p.rel, path |-> p.comps, ec |-> FALSE]
Unresolved == [rel |-> FALSE, path |-> <<>>, ec |-> TRUE]

\* getcwd() fails when the environment makes it, and when the working
\* directory has no name any more (ENOENT).
getcwd_fails(f, env) == env.getcwd_fails \/ WorkDir(f) = Unlinked

\* fs::absolute(p, ec): an error for the empty path (EINVAL); p itself when
\* absolute, else current_path(ec) / p; nothing is normalised.
absolute(f, p, env) ==
  IF p = EmptyPath THEN Unresolved
  ELSE IF ~p.rel THEN Resolved(p)
  ELSE IF getcwd_fails(f, env) THEN Unresolved
  ELSE Resolved(AbsPath(Cwd \o p.comps))

\* fs::canonical(p, ec) of an existing path: absolute(p, ec), then realpath.
canonical(f, p, env) ==
  IF absolute(f, p, env).ec \/ env.realpath_fails THEN Unresolved
  ELSE Resolved(AbsPath(Stat(f, p)))

\* The components of a lexically normal path, the trailing separator left
\* aside: done is normal already, rest is still to come.  "." and an empty
\* component go; ".." takes the name before it with it, stays at the front of
\* a relative path and goes at the root.
RECURSIVE LexNormal(_, _, _)
LexNormal(rel, done, rest) ==
  IF rest = <<>> THEN done
  ELSE IF Head(rest) \in {".", ""} THEN LexNormal(rel, done, Tail(rest))
  ELSE IF Head(rest) = ".."
    THEN IF done # <<>> /\ done[Len(done)] # ".."
           THEN LexNormal(rel, ParentOf(done), Tail(rest))
         ELSE IF rel THEN LexNormal(rel, Append(done, ".."), Tail(rest))
         ELSE LexNormal(rel, done, Tail(rest))
  ELSE LexNormal(rel, Append(done, Head(rest)), Tail(rest))

\* path::lexically_normal of done / rest, n being its components: a path
\* that ended in ".", ".." or a separator keeps a separator at its end,
\* unless it has become the root, nothing (".") or ends in ".."; the empty
\* path stays empty.
Normalized(rel, rest, n) ==
  IF n = <<>> THEN (IF ~rel THEN Root ELSE IF rest = <<>> THEN <<>> ELSE <<".">>)
  ELSE IF rest # <<>> /\ rest[Len(rest)] \in {".", "..", ""} /\ n[Len(n)] # ".."
    THEN Append(n, "")
  ELSE n

lexically_normal(rel, done, rest) == Normalized(rel, rest, LexNormal(rel, done, rest))

\* The number of leading components of p that exist, from the k known to.
RECURSIVE ExistingPrefix(_, _, _)
ExistingPrefix(f, p, k) ==
  IF k < Len(p.comps) /\ exists(f, [rel |-> p.rel, comps |-> SubSeq(p.comps, 1, k + 1)])
    THEN ExistingPrefix(f, p, k + 1)
    ELSE k

\* weakly_canonical of a path that does not exist, k of its components
\* existing: the canonical form of these (nothing, and no call of getcwd or
\* realpath, when k = 0 and the path is relative), the others appended, made
\* lexically normal.
WeaklyFrom(p, k, head) ==
  IF head.ec THEN Unresolved
  ELSE [rel |-> head.rel,
        path |-> lexically_normal(head.rel, head.path, SubSeq(p.comps, k + 1, Len(p.comps))),
        ec |-> FALSE]

\* fs::weakly_canonical(p, ec): canonical(p) when p exists; an error when
\* status(p) fails for another reason than that p is not there; else built
\* from the longest prefix that exists.
weakly_canonical(f, p, env) ==
  IF exists(f, p) THEN canonical(f, p, env)
  ELSE IF Stat(f, p) = Forbidden THEN Unresolved
  ELSE WeaklyFrom(p, ExistingPrefix(f, p, 0),
                  IF p.rel /\ ExistingPrefix(f, p, 0) = 0 THEN Resolved(EmptyPath)
                  ELSE canonical(f, [rel |-> p.rel,
                                     comps |-> SubSeq(p.comps, 1, ExistingPrefix(f, p, 0))],
                                 env))

\* The hard-refused system directories.
DenyList == {<<"System">>, <<"Library">>, <<"Applications">>}

\* canon == other for two paths: the same components, a trailing separator
\* included.
SamePath(a, b) == a.rel = b.rel /\ a.path = b.path

\* canon is the root, a deny-listed directory, or HOME when HOME is set and
\* weakly_canonical(HOME) succeeds.
Denied(f, canon, env) ==
  \/ SamePath(canon, Resolved(AbsPath(Root)))
  \/ \E d \in DenyList : SamePath(canon, Resolved(AbsPath(d)))
  \/ /\ env.home_set
     /\ LET homep == weakly_canonical(f, env.home, env)
        IN ~homep.ec /\ SamePath(canon, homep)

\* canon = weakly_canonical(p, ec); if (ec) canon = absolute(p, ec);
\* if (ec) return true; then the comparisons.
is_dangerous_dir(f, p, env) ==
  LET wc == weakly_canonical(f, p, env)
      canon == IF wc.ec THEN absolute(f, p, env) ELSE wc
  IN IF canon.ec THEN TRUE ELSE Denied(f, canon, env)

(* ---------------------------- wipe_directory ----------------------- *)

Digits == <<"0", "1", "2", "3", "4", "5", "6", "7", "8", "9">>

\* std::to_string of an unsigned count.
RECURSIVE to_string(_)
to_string(n) ==
  IF n < 10 THEN Digits[n + 1] ELSE to_string(n \div 10) \o Digits[(n % 10) + 1]

\* opendir of the directory at node n inside the directory at node d
\* succeeds: n can be read and d can be searched.
Opens(f, d, n) == Kind(f, n) = "dir" /\ f[n].readable /\ At(f, d).searchable

\* The entries of directory node d and below, depth first: each entry named
\* in names that exists, followed at once by what is below it when it is a
\* directory that can be opened (one that cannot is passed over,
\* skip_permission_denied; a symbolic link is not entered).  order is the
\* order in which readdir returns names.
RECURSIVE Descend(_, _, _, _)
Descend(f, d, names, order) ==
  IF names = <<>> THEN <<>>
  ELSE IF Kind(f, Append(d, Head(names))) = "none"
    THEN Descend(f, d, Tail(names), order)
  ELSE <<Append(d, Head(names))>>
         \o (IF Opens(f, d, Append(d, Head(names)))
               THEN Descend(f, Append(d, Head(names)), order, order)
               ELSE <<>>)
         \o Descend(f, d, Tail(names), order)

\* it->path(): the directory as it was given, then the names below it.
EntryPaths(dir, d, nodes) ==
  [i \in 1..Len(nodes) |->
     [rel |-> dir.rel, comps |-> dir.comps \o SubSeq(nodes[i], Len(d) + 1, Len(nodes[i]))]]

\* The paths a recursive_directory_iterator over dir yields, in order.
Entries(f, dir, order) ==
  EntryPaths(dir, Stat(f, dir),
             IF At(f, Stat(f, dir)).readable THEN Descend(f, Stat(f, dir), order, order)
             ELSE <<>>)

\* A filter that lets symbolic links through.
Wipeable_follows_links(f, e) == is_regular_file(f, e)

\* if (is_symlink(p)) continue; if (is_regular_file(p) && !ec2) ...: both
\* are false for an entry whose status cannot be read.
Wipeable(f, e) == ~is_symlink(f, e) /\ is_regular_file(f, e)

\* A gate that never asks for a mode.
SafetyStop_never(dry_run, yes) == FALSE

\* if (!dry_run && !yes)
SafetyStop(dry_run, yes) == ~dry_run /\ ~yes

\* if (res.ok) ++wiped_files; else ++failed_files (and the [FAIL] line).
Tally(st, e, res) ==
  [fs |-> res.fs,
   wiped_files |-> st.wiped_files + (IF res.ok THEN 1 ELSE 0),
   failed_files |-> st.failed_files + (IF res.ok THEN 0 ELSE 1),
   invoked |-> Append(st.invoked, [path |-> Stat(st.fs, e), arg |-> e,
                                   ok |-> res.ok, message |-> res.message])]

\* A sweep that stops at the first file that fails.
RECURSIVE ExecuteLoop_stops(_, _, _, _, _)
ExecuteLoop_stops(st, entries, opt, plans, rnd) ==
  IF entries = <<>> \/ st.failed_files > 0 THEN st
  ELSE IF ~Wipeable(st.fs, Head(entries))
    THEN ExecuteLoop_stops(st, Tail(entries), opt, plans, rnd)
  ELSE ExecuteLoop_stops(
         Tally(st, Head(entries),
               wipe_file(st.fs, Head(entries), opt, plans[Stat(st.fs, Head(entries))], rnd)),
         Tail(entries), opt, plans, rnd)

\* The execute loop: wipe_file on every entry that is wipeable when it is
\* reached; plans[n] is the environment's fault for the call on the file at
\* node n.  invoked records each call: the path handed over (arg), the node
\* it named (path) and the result.
RECURSIVE ExecuteLoop(_, _, _, _, _)
ExecuteLoop(st, entries, opt, plans, rnd) ==
  IF entries = <<>> THEN st
  ELSE IF ~Wipeable(st.fs, Head(entries))
    THEN ExecuteLoop(st, Tail(entries), opt, plans, rnd)
  ELSE ExecuteLoop(
         Tally(st, Head(entries),
               wipe_file(st.fs, Head(entries), opt, plans[Stat(st.fs, Head(entries))], rnd)),
         Tail(entries), opt, plans, rnd)

Children(f, d) == {n \in Nodes : Len(n) = Len(d) + 1 /\ IsPrefix(d, n) /\ Kind(f, n) # "none"}

\* fs::remove(*it, ec4) in the cleanup, n being the entry the path names
\* now (symbolic links not followed): rmdir of an empty directory, unlink of
\* anything that is no directory; a failure (no such entry, a directory that
\* is not empty) changes nothing.
remove_entry(f, n) ==
  IF n \notin Nodes \/ Kind(f, n) = "none" THEN f
  ELSE IF Kind(f, n) = "dir" /\ Children(f, n) # {} THEN f
  ELSE [f EXCEPT ![n] = Nothing]

Reverse(q) == [i \in 1..Len(q) |-> q[Len(q) + 1 - i]]

\* The tree and the list of removed entries after fs::remove of node n left
\* f2.
Removal(st, n, f2) ==
  [fs |-> f2, removed |-> IF f2 = st.fs THEN st.removed ELSE Append(st.removed, n)]

\* for (it = dirs.rbegin(); ...) fs::remove(*it, ec4): st holds the tree and
\* the entries removed so far, q the paths still to remove; each path is
\* resolved when its turn comes.
RECURSIVE RemoveLoop(_, _)
RemoveLoop(st, q) ==
  IF q = <<>> THEN st
  ELSE RemoveLoop(Removal(st, Lstat(st.fs, Head(q)),
                          remove_entry(st.fs, Lstat(st.fs, Head(q)))),
                  Tail(q))

\* The cleanup: collect every entry that is_directory() takes for a
\* directory, remove them last to first.
Cleanup(f, dir, order) ==
  RemoveLoop([fs |-> f, removed |-> <<>>],
             Reverse(SelectSeq(Entries(f, dir, order), LAMBDA e : is_directory(f, e))))

Refused(message, f) ==
  [ok |-> FALSE, message |-> message, fs |-> f, io |-> <<>>,
   total |-> 0, wiped |-> 0, failed |-> 0,
   visited |-> <<>>, invoked |-> <<>>, removed |-> <<>>]

\* r.ok = (failed_files == 0) and the message with the three counts.
Completed(total_files, visited, ex, cl) ==
  [ok |-> (ex.failed_files = 0),
   message |-> "wipe-dir complete. total=" \o to_string(total_files)
                 \o ", wiped=" \o to_string(ex.wiped_files)
                 \o ", failed=" \o to_string(ex.failed_files),
   fs |-> cl.fs, io |-> <<>>,
   total |-> total_files, wiped |-> ex.wiped_files, failed |-> ex.failed_files,
   visited |-> visited, invoked |-> ex.invoked, removed |-> cl.removed]

\* The execute loop having ended in ex: the cleanup, then the result.
Executed(dir, order, total_files, visited, ex) ==
  Completed(total_files, visited, ex, Cleanup(ex.fs, dir, order))

\* The first pass having counted total_files over the entries visited: the
\* dry-run result, or the execute loop over a fresh enumeration.
Counted(f, dir, opt, dry_run, plans, rnd, order, visited, total_files) ==
  IF dry_run
    THEN [ok |-> TRUE,
          message |-> "Dry-run complete. Files to wipe: " \o to_string(total_files)
                        \o ". Re-run with --yes to execute.",
          fs |-> f, io |-> <<>>,
          total |-> total_files, wiped |-> 0, failed |-> 0,
          visited |-> visited, invoked |-> <<>>, removed |-> <<>>]
    ELSE Executed(dir, order, total_files, visited,
                  ExecuteLoop([fs |-> f, wiped_files |-> 0, failed_files |-> 0, invoked |-> <<>>],
                              Entries(f, dir, order), opt, plans, rnd))

\* The first pass over the entries visited: ++total_files for each wipeable.
FirstPass(f, dir, opt, dry_run, plans, rnd, order, visited) ==
  Counted(f, dir, opt, dry_run, plans, rnd, order, visited,
          Len(SelectSeq(visited, LAMBDA e : Wipeable(f, e))))

wipe_directory(f, dir, opt, dry_run, yes, env, plans, rnd, order) ==
  IF ~exists(f, dir) THEN Refused("Directory does not exist", f)
  ELSE IF ~is_directory(f, dir) THEN Refused("Path is not a directory", f)
  ELSE IF is_dangerous_dir(f, dir, env)
    THEN Refused("Refusing to wipe a dangerous directory. Choose a safer target.", f)
  ELSE IF SafetyStop(dry_run, yes)
    THEN Refused("Safety stop: wipe-dir requires --dry-run (preview) or --yes (execute).", f)
  ELSE FirstPass(f, dir, opt, dry_run, plans, rnd, order, Entries(f, dir, order))

(* ---------------------------- inputs ------------------------------- *)

Patterns == {"Zeros", "Random"}

\* WipeOptions; block_size is positive (with block_size = 0 and a non-empty
\* file the write loop never ends).
\* The block sizes tried: the small ones, which the stream buffers, and
\* DirectLimit, whose chunks go to write(2) one by one.
Opts ==
  [passes : (-1)..MaxPasses, pattern : Patterns,
   block_size : (1..MaxBlock) \cup {DirectLimit}]

\* One system call fails: the size query, the removal, the open of a pass,
\* or a write(2), alone or with every write(2) after it; or the first
\* write(2) is short, carrying 1 or 100 bytes, and the ones after it succeed
\* or fail; or the second write(2) is short, the one before or after it
\* failing.
Plans ==
  {NoFault, Fault("size", 1, FALSE), Fault("remove", 1, FALSE)}
    \cup {Fault("open", p, FALSE) : p \in 1..MaxPasses}
    \cup {Fault("write", n, st) : n \in 1..(2 * MaxPasses), st \in BOOLEAN}
    \cup {ShortWrite(p, 1, k) :
            p \in {NoFault, Fault("write", 2, FALSE), Fault("write", 2, TRUE)},
            k \in {1, 100}}
    \cup {ShortWrite(Fault("write", 1, FALSE), 2, 1),
          ShortWrite(Fault("write", 3, FALSE), 2, 1)}

\* Outputs of the random generator that are tried.
RandTapes == {<<255>>, <<0, 165>>}

\* n bytes of file content, none of them zero.
Content(n) == [i \in 1..n |-> 170]

\* The tree around the target directory /t: /ext/x is a file outside it, in
\* the working directory.
BaseTree ==
  [n \in Nodes |->
     CASE n \in {Root, <<"System">>, <<"ext">>, Target} -> Dir(TRUE, TRUE)
       [] n = <<"ext", "x">> -> File(Content(1))
       [] OTHER -> Nothing]

NoRet ==
  [ok |-> FALSE, message |-> "", io |-> <<>>, total |-> 0, wiped |-> 0, failed |-> 0,
   visited |-> <<>>, invoked |-> <<>>, removed |-> <<>>]

(* ---------------------------- direct wipe_file calls ------------------ *)

\* The file sizes tried: 0..MaxSize, and one byte more than DirectLimit.
FileSizes == (0..MaxSize) \cup {DirectLimit + 1}

\* The trees a direct call is tried on: /t/a is a file, /t/l may be a
\* symbolic link to it.
FileTrees ==
  {[BaseTree EXCEPT ![<<"t", "a">>] = File(Content(n)),
                    ![<<"t", "l">>] = IF l THEN Link(<<"t", "a">>) ELSE Nothing]
     : n \in FileSizes, l \in BOOLEAN}

FilePaths ==
  {AbsPath(<<"t", "a">>), RelPath(<<"..", "t", "a">>), AbsPath(<<"t", "l">>),
   AbsPath(Target), AbsPath(<<"t", "gone">>), EmptyPath}

InitFile ==
  /\ fs \in FileTrees
  /\ pre = fs
  /\ pc = "called"
  /\ call \in [op : {"wipe_file"}, path : FilePaths, opt : Opts, plan : Plans, rnd : RandTapes]
  \* the large file is wiped in large blocks only
  /\ Len(fs[<<"t", "a">>].data) > MaxSize => call.opt.block_size = DirectLimit
  /\ ret = NoRet
  /\ first = NoRet

\* main's "wipe" command: one wipe_file call, run to its return.
WipeFile ==
  /\ pc = "called"
  /\ call.op = "wipe_file"
  /\ \E r \in {wipe_file(fs, call.path, call.opt, call.plan, call.rnd)} :
       /\ fs' = r.fs
       /\ ret' = [NoRet EXCEPT !.ok = r.ok, !.message = r.message, !.io = r.io]
  /\ pc' = "returned"
  /\ UNCHANGED <<pre, call, first>>

NextFile == WipeFile

SpecFile == InitFile /\ [][NextFile]_vars

(* ---------------------------- wipe_directory calls ----------------- *)

\* The trees a sweep is tried on: under /t a file a, a directory s with a
\* file b, and a symbolic link l to a file or a directory, inside or outside
\* /t; a link to /t/a or /t/s dangles when that is not there.  s has mode rwx, r-- (listed, but its entries cannot be
\* examined), --x or --- (not listed).
DirModes == {<<TRUE, TRUE>>, <<TRUE, FALSE>>, <<FALSE, TRUE>>, <<FALSE, FALSE>>}

LinkTargets == {<<"ext", "x">>, <<"ext">>, <<"t", "a">>, <<"t", "s">>}

SweepTrees ==
  {[BaseTree EXCEPT ![<<"t", "a">>] = IF a THEN File(Content(1)) ELSE Nothing,
                    ![<<"t", "s">>] = IF s = <<>> THEN Nothing ELSE Dir(s[1], s[2]),
                    ![<<"t", "s", "b">>] = IF s # <<>> /\ b THEN File(Content(2)) ELSE Nothing,
                    ![<<"t", "l">>] = l]
     : a \in BOOLEAN, b \in BOOLEAN, s \in {<<>>} \cup DirModes,
       l \in {Nothing} \cup {Link(t) : t \in LinkTargets}}

SweepDirs ==
  {AbsPath(Target), RelPath(<<"..", "t">>), AbsPath(<<"t", "a">>),
   AbsPath(Root), AbsPath(<<"t", "..">>), RelPath(<<"..">>),
   AbsPath(<<"System">>), EmptyPath}

\* HOME unset, with getcwd or realpath failing or neither; HOME the target
\* directory; HOME another directory, the working directory; HOME a path
\* through a name that does not exist; HOME empty.
Envs ==
  {Env(FALSE, AbsPath(Root), FALSE, FALSE), Env(FALSE, AbsPath(Root), TRUE, FALSE),
   Env(FALSE, AbsPath(Root), FALSE, TRUE),
   Env(TRUE, AbsPath(Target), FALSE, FALSE),
   Env(TRUE, AbsPath(Cwd), FALSE, FALSE),
   Env(TRUE, AbsPath(<<"t", "gone", "..">>), FALSE, FALSE),
   Env(TRUE, EmptyPath, FALSE, FALSE)}

\* The options a sweep hands on to wipe_file.
SweepOpts == {[passes |-> 1, pattern |-> "Zeros", block_size |-> 1]}

\* What the environment does to one wipe_file call of a sweep: nothing, or
\* it makes the call fail, at the removal.
SweepPlans == {NoFault, Fault("remove", 1, FALSE)}

Range(q) == {q[i] : i \in 1..Len(q)}

\* The orders of the names in q.
Perms(q) ==
  {p \in [1..Len(q) -> Range(q)] : \A i, j \in 1..Len(q) : p[i] = p[j] => i = j}

TopNames == <<"System", "ext", "t">>
UnderNames == <<"a", "l", "s">>

\* The orders in which readdir returns the names of a directory: one order
\* of all names stands for the order within each directory, and any order
\* of the names of the root and of those of /t is one.
Orders ==
  {top \o under \o <<"b", "x">> : top \in Perms(TopNames), under \in Perms(UnderNames)}

\* A traversal of directory node d meets the name c.
Met(f, d, c) ==
  \E n \in Nodes : /\ Len(n) > Len(d) /\ IsPrefix(d, n)
                    /\ n[Len(n)] = c /\ Kind(f, n) # "none"

\* Among the names q of one directory, in the order o: those a traversal of
\* d does not meet come last, in the order of q.
Settled(f, d, o, q) ==
  \A i, j \in 1..Len(o) :
    (i < j /\ o[i] \in Range(q) /\ o[j] \in Range(q) /\ ~Met(f, d, o[i])) =>
      /\ ~Met(f, d, o[j])
      /\ \E a, b \in 1..Len(q) : a < b /\ q[a] = o[i] /\ q[b] = o[j]

\* The orders tried for a traversal of directory node d: every order of the
\* names it meets; orders that differ in names it does not meet give the
\* same enumeration, and one of them is tried.
OrdersOver(f, d) ==
  {o \in Orders : Settled(f, d, o, TopNames) /\ Settled(f, d, o, UnderNames)}

NoPlans == [n \in Nodes |-> NoFault]

NoCall ==
  [op |-> "none", dir |-> AbsPath(Root),
   opt |-> [passes |-> 1, pattern |-> "Zeros", block_size |-> 1],
   dry_run |-> FALSE, yes |-> FALSE,
   env |-> Env(FALSE, AbsPath(Root), FALSE, FALSE), plans |-> NoPlans, rnd |-> <<165>>,
   order |-> TopNames \o UnderNames \o <<"b", "x">>]

\* The call c gets as far as the traversal.
Traverses(f, c) ==
  /\ exists(f, c.dir) /\ is_directory(f, c.dir)
  /\ ~is_dangerous_dir(f, c.dir, c.env)
  /\ ~SafetyStop(c.dry_run, c.yes)

\* The files a call hands to wipe_file: the environment decides a fault for
\* each.
Handed(f, c) ==
  IF Traverses(f, c) /\ ~c.dry_run
    THEN {Stat(f, e) : e \in {e \in Range(Entries(f, c.dir, c.order)) : Wipeable(f, e)}}
    ELSE {}

FaultChoices(f, c) ==
  LET handed == Handed(f, c)
  IN {[n \in Nodes |-> IF n \in handed THEN sub[n] ELSE NoFault]
        : sub \in [handed -> SweepPlans]}

\* The calls tried for the directory, flags and environment of c: a call
\* that traverses is tried in every order of readdir, and an execute sweep
\* with every option set and every choice of faults as well; a call that
\* does not traverse uses none of these and is tried once, a dry run does
\* not use the options.
Variants(f, c) ==
  IF ~Traverses(f, c) THEN {c}
  ELSE IF c.dry_run THEN {[c EXCEPT !.order = o] : o \in OrdersOver(f, Stat(f, c.dir))}
  ELSE UNION {{[c EXCEPT !.opt = opt, !.order = o, !.plans = plans]
                 : plans \in FaultChoices(f, [c EXCEPT !.order = o])}
               : opt \in SweepOpts, o \in OrdersOver(f, Stat(f, c.dir))}

\* The call c has returned r.
Return(c, r) ==
  /\ fs' = r.fs
  /\ ret' = [ok |-> r.ok, message |-> r.message, io |-> r.io,
             total |-> r.total, wiped |-> r.wiped, failed |-> r.failed,
             visited |-> r.visited, invoked |-> r.invoked, removed |-> r.removed]
  /\ pre' = fs
  /\ call' = c

Run(c) ==
  Return(c, wipe_directory(fs, c.dir, c.opt, c.dry_run, c.yes, c.env, c.plans, c.rnd, c.order))

Init ==
  /\ fs \in SweepTrees
  /\ pre = fs
  /\ pc = "start"
  /\ call = NoCall
  /\ ret = NoRet
  /\ first = NoRet

\* main's "wipe-dir" command: one wipe_directory call, run to its return.
WipeDirectory ==
  /\ pc = "start"
  /\ \E dir \in SweepDirs, dry_run \in BOOLEAN, yes \in BOOLEAN, env \in Envs :
       \E c \in Variants(fs, [NoCall EXCEPT !.op = "wipe_directory", !.dir = dir,
                                             !.dry_run = dry_run, !.yes = yes,
                                             !.env = env]) :
         /\ Run(c)
         /\ first' = ret'
  /\ pc' = "ran1"

\* The same command run a second time, in the same environment.
Rerun ==
  /\ pc = "ran1"
  /\ Run(call)
  /\ pc' = "ran2"
  /\ UNCHANGED first

Next == WipeDirectory \/ Rerun

Spec == Init /\ [][Next]_vars

(* ---------------------------- reading a trace ---------------------- *)

\* The operations op of pass k in a trace, in order; the successful ones.
Events(io, op, k) == SelectSeq(io, LAMBDA e : e.op = op /\ e.pass = k)
OkEvents(io, op, k) == SelectSeq(io, LAMBDA e : e.op = op /\ e.pass = k /\ e.ok)

\* The bytes of a sequence of writes, one after the other.
RECURSIVE BytesOf(_)
BytesOf(w) == IF w = <<>> THEN <<>> ELSE Head(w).bytes \o BytesOf(Tail(w))

\* Each write starts where the one before it ended, the first at 0.
Consecutive(w) ==
  \A i \in 1..Len(w) :
    w[i].off = IF i = 1 THEN 0 ELSE w[i - 1].off + Len(w[i - 1].bytes)

\* The operations wipe_file itself issues; "close" and "write(2)" are the
\* stream's.
OwnOps == {"open", "write", "flush", "remove"}

\* Pass k opened the file, handed all size bytes of it to the stream in
\* consecutive writes and flushed, and the stream's system calls carried
\* those size bytes to the file.
PassComplete(io, k, size) ==
  /\ Len(OkEvents(io, "open", k)) = 1
  /\ Consecutive(OkEvents(io, "write", k))
  /\ Len(BytesOf(OkEvents(io, "write", k))) = size
  /\ Len(OkEvents(io, "flush", k)) = 1
  /\ Events(io, "write(2)", k) = OkEvents(io, "write(2)", k)
  /\ Consecutive(Events(io, "write(2)", k))
  /\ BytesOf(Events(io, "write(2)", k)) = BytesOf(OkEvents(io, "write", k))

Deleted(io) == \E i \in 1..Len(io) : io[i].op = "remove" /\ io[i].ok

FileReturned == pc = "returned" /\ call.op = "wipe_file"

\* The size of the file the latest call's path named when the call started.
PreSize == Len(At(pre, Stat(pre, call.path)).data)

(* ---------------------------- C3 ------------------------------------ *)

\* C3: wipe_file returns ok=true exactly when each of the `passes` passes
\* overwrote the whole file and flushed, and the deletion after the last pass
\* succeeded.  After ok=true the path no longer exists; the file is removed
\* only after the last pass has flushed and only by the final deletion; and
\* a failed open, write, flush or delete returns ok=false at once, with no
\* later pass and no retry: once an operation has failed nothing is opened,
\* written, flushed or deleted any more, and all that is left in the trace is
\* the report of the ofs.write or flush the failed write(2) belongs to and
\* the closing of the stream.
C3_OkIffAllPassesThenDelete ==
  FileReturned =>
    LET io == ret.io
        passes == call.opt.passes
        was == Lstat(pre, call.path)
    IN /\ ret.ok <=> /\ passes >= 1
                     /\ Kind(pre, Stat(pre, call.path)) = "file"
                     /\ \A k \in 1..passes : PassComplete(io, k, PreSize)
                     /\ Deleted(io)
       /\ ret.ok => ~exists(fs, call.path)
       /\ \A i \in 1..Len(io) :
            io[i].op = "remove" =>
              /\ i = Len(io)
              /\ \E j \in 1..(i - 1) : io[j].op = "flush" /\ io[j].pass = passes /\ io[j].ok
       /\ (Kind(pre, was) # "none" /\ Kind(fs, was) = "none") => Deleted(io)
       /\ \A i \in 1..Len(io) : ~io[i].ok => ~ret.ok
       /\ \A i \in 1..Len(io) :
            (io[i].op # "close" /\ ~io[i].ok) =>
              \A j \in (i + 1)..Len(io) :
                \/ io[j].op = "close"
                \/ /\ j = i + 1 /\ io[i].op = "write(2)"
                   /\ io[j].op \in {"write", "flush"} /\ ~io[j].ok
       /\ \A i, j \in 1..Len(io) :
            (i < j /\ io[i].op \in OwnOps /\ io[j].op \in OwnOps) =>
              /\ io[i].pass <= io[j].pass
              /\ ~(io[i].op = io[j].op /\ io[i].pass = io[j].pass /\ io[i].off = io[j].off)

(* ---------------------------- C4 ------------------------------------ *)

\* C4: wipe_file checks (1) the path exists, (2) it is a regular file,
\* (3) its size can be read, (4) passes >= 1, in this order, and returns
\* ok=false with the message of the first check that fails, having opened,
\* written and deleted nothing.
C4_PreconditionOrder ==
  FileReturned =>
    LET k == Kind(pre, Stat(pre, call.path))
        nosize == call.plan.op = "size"
        untouched == ~ret.ok /\ ret.io = <<>> /\ fs = pre
    IN /\ k = "none" => ret.message = "Path does not exist" /\ untouched
       /\ k \in {"dir", "link"} =>
            /\ ret.message = "Path is not a regular file (directories not supported in MVP)"
            /\ untouched
       /\ (k = "file" /\ nosize) =>
            /\ ret.message = "Failed to get file size: " \o strerror(call.plan)
            /\ untouched
       /\ (k = "file" /\ ~nosize /\ call.opt.passes < 1) =>
            ret.message = "passes must be >= 1" /\ untouched

\* A call with passes = 0 on a path that does not exist: the first check
\* decides the message.
C4_Witness ==
  /\ FileReturned
  /\ Kind(pre, Stat(pre, call.path)) = "none"
  /\ call.opt.passes = 0
  /\ ret.message = "Path does not exist"

(* ---------------------------- C10 ----------------------------------- *)

\* C10: with pattern Zeros, whatever the file size and block_size >= 1, every
\* pass that reaches its flush has written exactly file_size bytes, in chunks
\* of block_size bytes but for a shorter last one, at consecutive offsets from
\* 0; every byte written is 0x00; what a pass writes is file_size zero bytes
\* whatever block_size is, and once its flush has succeeded the stream has
\* carried just these bytes to the file, at offsets 0 to file_size, so that
\* the file holds file_size zero bytes and keeps its length.
C10_ZerosPassWritesWholeFile ==
  (FileReturned /\ call.opt.pattern = "Zeros") =>
    LET io == ret.io
        bs == call.opt.block_size
        node == Stat(pre, call.path)
        zeros == [i \in 1..PreSize |-> 0]
    IN /\ \A k \in 1..call.opt.passes :
            Events(io, "flush", k) # <<>> =>
              LET w == Events(io, "write", k)
              IN /\ \A i \in 1..Len(w) : w[i].ok
                 /\ Consecutive(w)
                 /\ BytesOf(w) = zeros
                 /\ \A i \in 1..Len(w) : Len(w[i].bytes) >= 1 /\ Len(w[i].bytes) <= bs
                 /\ \A i \in 1..(Len(w) - 1) : Len(w[i].bytes) = bs
       /\ \A k \in 1..call.opt.passes :
            OkEvents(io, "flush", k) # <<>> =>
              /\ Events(io, "write(2)", k) = OkEvents(io, "write(2)", k)
              /\ Consecutive(Events(io, "write(2)", k))
              /\ BytesOf(Events(io, "write(2)", k)) = zeros
       /\ \A i \in 1..Len(io) :
            io[i].op \in {"write", "write(2)"} =>
              \A b \in 1..Len(io[i].bytes) : io[i].bytes[b] = 0
       /\ (OkEvents(io, "flush", 1) # <<>> /\ Kind(fs, node) = "file") =>
            /\ Len(fs[node].data) >= PreSize
            /\ \A b \in 1..Len(fs[node].data) : fs[node].data[b] = 0
       /\ (Kind(fs, node) = "file" /\ \A i \in 1..Len(io) : io[i].ok \/ io[i].op \in {"open", "remove"})
            => Len(fs[node].data) = Len(pre[node].data)

\* Two Zeros passes over a file whose size is no multiple of block_size: the
\* last chunk of each pass is shorter.
C10_Witness ==
  /\ FileReturned /\ ret.ok /\ call.opt.pattern = "Zeros"
  /\ call.opt.passes = 2 /\ call.opt.block_size = 2 /\ PreSize = 3
  /\ Len(Events(ret.io, "write", 2)) = 2

(* ---------------------------- reading a sweep ---------------------- *)

DirReturned == pc \in {"ran1", "ran2"}

\* The directory the latest call was given, as the kernel resolves it.
SweptDir == Stat(pre, call.dir)

\* The call enumerated nothing, handed nothing to wipe_file, removed nothing
\* and left the tree as it was.
NoTraversal ==
  /\ ret.visited = <<>> /\ ret.invoked = <<>> /\ ret.removed = <<>>
  /\ ret.total = 0 /\ ret.wiped = 0 /\ ret.failed = 0
  /\ fs = pre

\* Canonicalisation of the call's directory succeeds: realpath works, and
\* so does getcwd when the path is relative.
Canonicalizes ==
  ~call.env.realpath_fails /\ ~(call.dir.rel /\ getcwd_fails(pre, call.env))

\* The gate lets the call through to the traversal.
GateOpen ==
  /\ is_directory(pre, call.dir)
  /\ ~is_dangerous_dir(pre, call.dir, call.env)
  /\ (call.dry_run \/ call.yes)

\* Every directory from d down to the one that holds n can be listed and
\* searched by the process.
Accessible(f, d, n) ==
  \A k \in Len(d)..(Len(n) - 1) :
    f[SubSeq(n, 1, k)].readable /\ f[SubSeq(n, 1, k)].searchable

\* The regular files of the tree under directory d; those of them the
\* process can list and examine.
TreeFiles(f, d) == {n \in Nodes : Len(n) > Len(d) /\ IsPrefix(d, n) /\ Kind(f, n) = "file"}
ReachableFiles(f, d) == {n \in TreeFiles(f, d) : Accessible(f, d, n)}

\* The symbolic links the traversal of d comes across and can examine.
TreeLinks(f, d) ==
  {n \in Nodes : /\ Len(n) > Len(d) /\ IsPrefix(d, n) /\ Kind(f, n) = "link"
                 /\ Accessible(f, d, n)}

InvokedPaths == {ret.invoked[i].path : i \in 1..Len(ret.invoked)}

RefusedDangerous ==
  /\ ~ret.ok
  /\ ret.message = "Refusing to wipe a dangerous directory. Choose a safer target."

(* ---------------------------- C1 ------------------------------------ *)

\* C1: a call on a directory whose canonical path is the root, a deny-listed
\* system directory or the resolved HOME returns ok=false whatever dry_run
\* and confirmed are, before any traversal: nothing is enumerated,
\* overwritten, deleted or removed.
C1_DangerousDirRefused ==
  (DirReturned /\ Kind(pre, SweptDir) = "dir") =>
    LET home == Stat(pre, call.env.home)
    IN (\/ SweptDir = Root
        \/ SweptDir \in DenyList
        \/ (call.env.home_set /\ SweptDir = home))
         => ~ret.ok /\ NoTraversal

(* ---------------------------- C2 ------------------------------------ *)

\* C2: with neither dry_run nor confirmed a call returns ok=false without
\* enumerating or changing anything; on an existing directory that is not
\* dangerous it is the safety stop that refuses.
C2_NoModeNoTraversal ==
  (DirReturned /\ ~call.dry_run /\ ~call.yes) =>
    /\ ~ret.ok /\ NoTraversal
    /\ (is_directory(pre, call.dir) /\ ~is_dangerous_dir(pre, call.dir, call.env)) =>
         ret.message = "Safety stop: wipe-dir requires --dry-run (preview) or --yes (execute)."

\* The target directory with two files in it, no flag set: the safety stop.
C2_Witness ==
  /\ pc = "ran1" /\ ~call.dry_run /\ ~call.yes
  /\ SweptDir = Target /\ Cardinality(ReachableFiles(pre, Target)) = 2
  /\ ret.message = "Safety stop: wipe-dir requires --dry-run (preview) or --yes (execute)."
  /\ fs = pre

(* ---------------------------- C5 ------------------------------------ *)

ExecuteReturned == DirReturned /\ GateOpen /\ ~call.dry_run /\ call.yes

\* What C5 says of the files `files`: each is handed to wipe_file exactly
\* once, every one wiped is gone, each counts as wiped or as failed, and
\* ok = (failed = 0) with total = wiped + failed.
SweepCovers(files) ==
  /\ InvokedPaths = files
  /\ Len(ret.invoked) = Cardinality(files)
  /\ \A i \in 1..Len(ret.invoked) : ret.invoked[i].ok => Kind(fs, ret.invoked[i].path) = "none"
  /\ ret.wiped = Cardinality({i \in 1..Len(ret.invoked) : ret.invoked[i].ok})
  /\ ret.failed = Cardinality({i \in 1..Len(ret.invoked) : ~ret.invoked[i].ok})
  /\ ret.ok <=> (ret.failed = 0)
  /\ ret.total = ret.wiped + ret.failed
  /\ ret.message = "wipe-dir complete. total=" \o to_string(ret.total)
                     \o ", wiped=" \o to_string(ret.wiped)
                     \o ", failed=" \o to_string(ret.failed)

\* C5 as stated: in execute mode the sweep covers every regular file of the
\* tree, a failure on one file notwithstanding.
C5_Original == ExecuteReturned => SweepCovers(TreeFiles(pre, SweptDir))

\* C5, amended: in execute mode the sweep covers every regular non-symlink
\* file of the tree that the process can list and examine, that is, every
\* one whose directories from the target down it may both read and search;
\* a file below a directory it may not read (never listed) or may not search
\* (listed, but is_symlink and is_regular_file fail on it) is neither handed
\* to wipe_file nor counted, and ok can be true while it remains.
C5_SweepCoversReachableFiles == ExecuteReturned => SweepCovers(ReachableFiles(pre, SweptDir))

\* Two files, the first fails, the second is wiped and deleted all the same.
C5_Witness ==
  /\ pc = "ran1" /\ ExecuteReturned
  /\ Len(ret.invoked) = 2 /\ ~ret.invoked[1].ok /\ ret.invoked[2].ok
  /\ Kind(fs, ret.invoked[2].path) = "none"
  /\ ret.failed = 1 /\ ret.wiped = 1 /\ ~ret.ok

(* ---------------------------- C6 ------------------------------------ *)

\* What C6 says, the count being that of `files`: a dry run changes nothing
\* and hands nothing to wipe_file whatever confirmed is, and past the gate it
\* returns ok=true and reports the number of files.
DryRunReports(files) ==
  /\ fs = pre /\ ret.invoked = <<>> /\ ret.removed = <<>>
  /\ GateOpen =>
       /\ ret.ok
       /\ ret.total = Cardinality(files)
       /\ ret.message = "Dry-run complete. Files to wipe: " \o to_string(Cardinality(files))
                          \o ". Re-run with --yes to execute."

\* C6 as stated: the count is the number of regular non-symlink files in the
\* tree.
C6_Original == (DirReturned /\ call.dry_run) => DryRunReports(TreeFiles(pre, SweptDir))

\* C6, amended: the count is the number of regular non-symlink files of the
\* tree that the process can list and examine, that is, those whose
\* directories from the target down it may both read and search.
C6_DryRunCountsReachableFiles ==
  (DirReturned /\ call.dry_run) => DryRunReports(ReachableFiles(pre, SweptDir))

\* Both flags set over a tree with two files and a link to a file: a dry run
\* that reports 2.
C6_Witness ==
  /\ pc = "ran1" /\ call.dry_run /\ call.yes /\ GateOpen
  /\ ret.ok /\ ret.total = 2
  /\ \E n \in TreeLinks(pre, SweptDir) : Kind(pre, pre[n].target) = "file"
  /\ fs = pre

(* ---------------------------- C7 ------------------------------------ *)

\* C7: a traversal, dry-run or execute, neither follows, wipes nor counts a
\* symbolic link: the link is not handed to wipe_file and adds nothing to the
\* counts, it is still there after the sweep, and the file it points to is
\* not overwritten through it.
C7_SymlinksUntouched ==
  (DirReturned /\ GateOpen) =>
    /\ ret.total = Cardinality(ReachableFiles(pre, SweptDir))
    /\ ret.wiped + ret.failed = Len(ret.invoked)
    /\ \A n \in TreeLinks(pre, SweptDir) :
         /\ n \notin InvokedPaths
         /\ fs[n] = pre[n]
         /\ (Kind(pre, pre[n].target) = "file" /\ pre[n].target \notin InvokedPaths)
              => fs[pre[n].target] = pre[pre[n].target]

(* ---------------------------- C8 ------------------------------------ *)

\* C8: whenever the directory cannot be brought to its canonical form the
\* gate takes it for dangerous, and the call returns ok=false without
\* traversing.
C8_CanonicalizationFailureRefused ==
  (DirReturned /\ is_directory(pre, call.dir) /\ ~Canonicalizes) =>
    RefusedDangerous /\ NoTraversal

(* ---------------------------- C9 ------------------------------------ *)

\* The first run was an execute sweep that wiped every file it found.
FirstWipedAll ==
  /\ ~call.dry_run /\ call.yes
  /\ first.ok /\ first.message # "" /\ first.wiped = first.total

\* C9: after an execute sweep has wiped every file, the same sweep run again
\* returns ok=true with total=0, wiped=0, failed=0; the cleanup of the first
\* run removed nothing but empty directories below the target, never the
\* target itself, so the second run finds the directory.
C9_Idempotent ==
  /\ (pc = "ran1" /\ ExecuteReturned) =>
       \A i \in 1..Len(ret.removed) :
         /\ ret.removed[i] # SweptDir
         /\ IsPrefix(SweptDir, ret.removed[i])
         /\ Kind(pre, ret.removed[i]) = "dir"
  /\ (pc = "ran2" /\ FirstWipedAll) =>
       /\ ret.ok
       /\ ret.total = 0 /\ ret.wiped = 0 /\ ret.failed = 0
       /\ ret.message = "wipe-dir complete. total=0, wiped=0, failed=0"

====
